---- MODULE Spec2Model ----
(***************************************************************************)
(* A model of DashboardDAO (superset/dashboards/dao.py): the slug          *)
(* uniqueness checks, update_charts_owners, bulk_delete and the metadata   *)
(* reconciliation set_dash_metadata.                                       *)
(*                                                                         *)
(* The relational store is modelled by two values: `db`, the committed     *)
(* rows, and `session`, the rows as the open transaction of db.session     *)
(* sees them (pending and flushed changes applied).  commit() copies       *)
(* session to db; rollback() copies db to session.                         *)
(***************************************************************************)
EXTENDS Integers, Sequences, FiniteSets, TLC

VARIABLES
    db,          \* committed rows of the store
    session,     \* rows as seen by the open transaction (db.session)
    pc,          \* position inside bulk_delete, "idle" between calls
    call,        \* the operation in progress or last returned, with its arguments
    raised,      \* the exception that left the last call, NoError if it returned
    slugs,       \* dashboards.slug column: dashboard id -> slug
    slug_check,  \* the last slug check: its arguments and its result
    slice_table, \* ids of the Slice rows set_dash_metadata can resolve
    dashboard,   \* the Dashboard object set_dash_metadata works on
    committed,   \* that dashboard's row as last committed
    before,      \* the dashboard as the last set_dash_metadata call found it
    request,     \* the arguments of set_dash_metadata
    outcome      \* how the last set_dash_metadata call ended, "none" before any

metaVars == <<slice_table, dashboard, committed, before, request, outcome>>
vars == <<db, session, pc, call, raised, slugs, slug_check, metaVars>>

\* Python's None / SQL NULL for string-valued fields.
None == "None"
NoError == "no error"

(***************************************************************************)
(* The store.                                                              *)
(***************************************************************************)
\* The rows of dashboards, slices and ab_user: their primary keys.
DashIds == {1, 2}
ChartIds == {1, 2}
UserIds == {1, 2}

\* The most association rows the store holds initially.
MaxRows == 4

\* The association rows a store may hold, tagged with their table.
DashboardRows ==
    ({"dashboard_slices"} \X DashIds \X ChartIds)
    \cup ({"dashboard_user"} \X DashIds \X UserIds)
    \cup ({"embedded_dashboards"} \X DashIds \X {0})

OwnerRows ==
    ({"dashboard_slices"} \X DashIds \X ChartIds)
    \cup ({"dashboard_user"} \X DashIds \X UserIds)
    \cup ({"slice_user"} \X ChartIds \X UserIds)

\* The sets of at most MaxRows rows among `rows`.
RowSets(rows) ==
    {{}} \cup {{f[i] : i \in 1..MaxRows} : f \in [1..MaxRows -> rows]}

Table(R, name) == {<<r[2], r[3]>> : r \in {x \in R : x[1] = name}}

StoreOf(R) ==
    [dashboards |-> DashIds,
     slices |-> ChartIds,
     ab_user |-> UserIds,
     dashboard_slices |-> Table(R, "dashboard_slices"),
     dashboard_user |-> Table(R, "dashboard_user"),
     embedded |-> {r[1] : r \in Table(R, "embedded_dashboards")},
     slice_user |-> Table(R, "slice_user")]

Stores(rows) == {StoreOf(R) : R \in RowSets(rows)}

\* Dashboard.slices, Dashboard.owners, Slice.owners as the session loads them.
SlicesOf(s, d) == {r[2] : r \in {x \in s.dashboard_slices : x[1] = d}}
OwnersOf(s, d) == {r[2] : r \in {x \in s.dashboard_user : x[1] = d}}
ChartOwners(s, c) == {r[2] : r \in {x \in s.slice_user : x[1] = c}}

StorageErrors == {"OperationalError", "IntegrityError"}

NoCall == [op |-> "none"]

\* The variables of set_dash_metadata where no dashboard is being saved.
MetaIdle ==
    /\ slice_table = {}
    /\ dashboard = NoCall
    /\ committed = NoCall
    /\ before = NoCall
    /\ request = NoCall
    /\ outcome = "none"

(***************************************************************************)
(* update_charts_owners(model, commit)                                     *)
(***************************************************************************)
\* A faulty variant: the chart's owners are replaced by the dashboard's.
ReplacedOwners(owners, slc_owners) == owners

\* slc.owners = list(set(owners) | set(slc.owners)) for one chart.
MergedOwners(owners, slc_owners) == owners \cup slc_owners

\* The loop over model.slices: the slice_user rows after it.
PropagateOwners(s, d) ==
    [s EXCEPT !.slice_user =
        {r \in s.slice_user : r[1] \notin SlicesOf(s, d)}
        \cup UNION {{<<c, u>> : u \in MergedOwners(OwnersOf(s, d),
                                                    ChartOwners(s, c))} :
                     c \in SlicesOf(s, d)}]

UpdateChartsOwners(d, commit) ==
    /\ pc = "idle"
    /\ d \in session.dashboards
    /\ call' = [op |-> "update_charts_owners", model |-> d, commit |-> commit,
                entry |-> session, entry_db |-> db]
    /\ session' = PropagateOwners(session, d)
    /\ \/ /\ db' = IF commit THEN session' ELSE db
          /\ raised' = NoError
       \/ /\ commit
          \* db.session.commit() fails: nothing here catches it
          /\ \E e \in StorageErrors : raised' = e
          /\ db' = db
    /\ UNCHANGED <<pc, slugs, slug_check, metaVars>>

(***************************************************************************)
(* bulk_delete(models, commit)                                             *)
(***************************************************************************)
\* The lists of dashboards a caller passes: ascending lists of distinct ids.
ModelLists(ds) ==
    {q \in UNION {[1..n -> ds] : n \in 0..Cardinality(ds)} :
        \A i \in 1..(Len(q) - 1) : q[i] < q[i + 1]}

\* item_ids = [model.id for model in models] if models else []
ItemIds(given, models) == IF given /\ Len(models) > 0 THEN models ELSE <<>>

\* A faulty variant: the owners are left attached.
DetachSlicesOnly(s, d) ==
    [s EXCEPT !.dashboard_slices = {r \in @ : r[1] # d},
              !.embedded = @ \ {d}]

\* model.slices = []; model.owners = []; model.embedded = []; merge(model)
Detach(s, d) ==
    [s EXCEPT !.dashboard_slices = {r \in @ : r[1] # d},
              !.dashboard_user = {r \in @ : r[1] # d},
              !.embedded = @ \ {d}]

\* query(Dashboard).filter(Dashboard.id.in_(item_ids)).delete()
DeleteRows(s, ids) ==
    [s EXCEPT !.dashboards = @ \ {ids[i] : i \in 1..Len(ids)}]

\* except SQLAlchemyError as ex: db.session.rollback(); raise ex
Reraised(ex) == ex

BulkDeleteBegin(given, models, commit) ==
    /\ pc = "idle"
    /\ call' = [op |-> "bulk_delete", given |-> given, models |-> models,
                commit |-> commit, item_ids |-> ItemIds(given, models),
                i |-> 1, entry |-> session, entry_db |-> db, fault |-> NoError,
                failed_at |-> "nowhere"]
    /\ pc' = IF given /\ Len(models) > 0 THEN "detach" ELSE "delete"
    /\ raised' = NoError
    /\ UNCHANGED <<db, session, slugs, slug_check, metaVars>>

BulkDeleteDetach ==
    /\ pc = "detach"
    /\ session' = Detach(session, call.models[call.i])
    /\ call' = [call EXCEPT !.i = @ + 1]
    /\ pc' = IF call.i = Len(call.models) THEN "delete" ELSE "detach"
    /\ UNCHANGED <<db, raised, slugs, slug_check, metaVars>>

\* A faulty variant: the error is re-raised without the rollback.
BulkDeleteNoRollback(ex) ==
    /\ session' = session
    /\ call' = [call EXCEPT !.fault = ex, !.failed_at = pc]
    /\ raised' = ex
    /\ pc' = "idle"
    /\ UNCHANGED <<db, slugs, slug_check, metaVars>>

BulkDeleteRollback(ex) ==
    /\ session' = db
    /\ call' = [call EXCEPT !.fault = ex, !.failed_at = pc]
    /\ raised' = Reraised(ex)
    /\ pc' = "idle"
    /\ UNCHANGED <<db, slugs, slug_check, metaVars>>

BulkDeleteRows ==
    /\ pc = "delete"
    /\ \/ /\ session' = DeleteRows(session, call.item_ids)
          /\ pc' = IF call.commit THEN "commit" ELSE "idle"
          /\ UNCHANGED <<db, call, raised, slugs, slug_check, metaVars>>
       \/ \E ex \in StorageErrors : BulkDeleteRollback(ex)

BulkDeleteCommit ==
    /\ pc = "commit"
    /\ \/ /\ db' = session
          /\ pc' = "idle"
          /\ UNCHANGED <<session, call, raised, slugs, slug_check, metaVars>>
       \/ \E ex \in StorageErrors : BulkDeleteRollback(ex)

StoreInit(rows) ==
    /\ db \in Stores(rows)
    /\ session = db
    /\ pc = "idle"
    /\ call = NoCall
    /\ raised = NoError
    /\ slugs = <<>>
    /\ slug_check = NoCall
    /\ MetaIdle

OwnersNext ==
    \E d \in DashIds, commit \in BOOLEAN : UpdateChartsOwners(d, commit)

DeleteNext ==
    \/ \E given \in BOOLEAN, commit \in BOOLEAN :
         \E models \in ModelLists(session.dashboards) :
            /\ (~given => models = <<>>)
            /\ BulkDeleteBegin(given, models, commit)
    \/ BulkDeleteDetach
    \/ BulkDeleteRows
    \/ BulkDeleteCommit

SpecOwners == StoreInit(OwnerRows) /\ [][OwnersNext]_vars
SpecDelete == StoreInit(DashboardRows) /\ [][DeleteNext]_vars

(***************************************************************************)
(* validate_slug_uniqueness, validate_update_slug_uniqueness               *)
(***************************************************************************)
\* The slugs a dashboard row or a request may carry; None is NULL / absent.
SlugValues == {None, "", "sales", "ops"}

\* dashboards.slug is a unique column: no two rows share a non-NULL slug.
SlugTables ==
    {t \in UNION {[ds -> SlugValues] : ds \in SUBSET DashIds} :
        \A a, b \in DOMAIN t : (a # b /\ t[a] # None) => t[a] # t[b]}

\* `not slug`: None and the empty string are falsy.
Falsy(slug) == slug = None \/ slug = ""

SlugUnique(t, slug) ==
    IF Falsy(slug) THEN TRUE
    ELSE ~(\E d \in DOMAIN t : t[d] = slug)

UpdateSlugUnique(t, dashboard_id, slug) ==
    IF slug # None
    THEN ~(\E d \in DOMAIN t : t[d] = slug /\ d # dashboard_id)
    ELSE TRUE

ValidateSlugUniqueness(slug) ==
    /\ slug_check' = [op |-> "validate_slug_uniqueness", slug |-> slug,
                      dashboard_id |-> 0, unique |-> SlugUnique(slugs, slug)]
    /\ UNCHANGED <<db, session, pc, call, raised, slugs, metaVars>>

ValidateUpdateSlugUniqueness(dashboard_id, slug) ==
    /\ slug_check' = [op |-> "validate_update_slug_uniqueness", slug |-> slug,
                      dashboard_id |-> dashboard_id,
                      unique |-> UpdateSlugUnique(slugs, dashboard_id, slug)]
    /\ UNCHANGED <<db, session, pc, call, raised, slugs, metaVars>>

SlugInit ==
    /\ slugs \in SlugTables
    /\ slug_check = NoCall
    /\ db = StoreOf({})
    /\ session = db
    /\ pc = "idle"
    /\ call = NoCall
    /\ raised = NoError
    /\ MetaIdle

SlugNext ==
    \/ \E slug \in SlugValues : ValidateSlugUniqueness(slug)
    \/ \E dashboard_id \in DashIds, slug \in SlugValues :
         ValidateUpdateSlugUniqueness(dashboard_id, slug)

SpecSlug == SlugInit /\ [][SlugNext]_vars

(***************************************************************************)
(* set_dash_metadata(dashboard, data, old_to_new_slice_ids, commit)        *)
(*                                                                         *)
(* JSON objects (Python dicts) are functions from string keys.  Values     *)
(* whose content the function never inspects are kept as their JSON text.  *)
(***************************************************************************)
EmptyDoc == <<>>
Has(d, k) == k \in DOMAIN d
Get(d, k, default) == IF k \in DOMAIN d THEN d[k] ELSE default
Put(d, k, v) == [x \in DOMAIN d \cup {k} |-> IF x = k THEN v ELSE d[x]]
Pop(d, k) == [x \in DOMAIN d \ {k} |-> d[x]]
SetDefault(d, k, v) == IF k \in DOMAIN d THEN d ELSE Put(d, k, v)

\* json.dumps and json.loads: a JSON text is the document it encodes, wrapped.
Dumps(doc) == [json |-> doc]
Loads(text) == text.json

\* str(i) and int(s) on the decimal keys of the documents; int raises
\* ValueError on any other key.
Digits == <<"1", "2", "3">>
Str(i) == Digits[i]
IsInt(s) == \E i \in 1..Len(Digits) : Digits[i] = s
ToInt(s) == CHOOSE i \in 1..Len(Digits) : Digits[i] = s

\* str(slice.uuid) of the Slice row with id c.
Uuid(c) == "uuid-" \o Str(c)
NoUuid == "no uuid key"
Null == "null"

\* The entries of a positions document.  chartId is 0 where meta is missing.
ScalarNode ==
    [kind |-> "scalar", type |-> "", has_meta |-> FALSE, chartId |-> 0,
     uuid |-> NoUuid]
DictNode(type, has_meta, chartId) ==
    [kind |-> "dict", type |-> type, has_meta |-> has_meta,
     chartId |-> chartId, uuid |-> NoUuid]

\* "DASHBOARD_VERSION_KEY": "v2"; a row; rows and charts that carry a chart
\* id; a chart node without meta.
NodeList ==
    <<ScalarNode,
      DictNode("ROW", FALSE, 0),
      DictNode("ROW", TRUE, 1),
      DictNode("ROW", TRUE, 2),
      DictNode("CHART", TRUE, 1),
      DictNode("CHART", TRUE, 2),
      DictNode("CHART", FALSE, 0)>>

\* The most entries of a positions document.
MaxPos == 2

\* Positions documents: entry i is the node under the i-th position key.  The
\* order of the keys plays no part, so one order per multiset is enough.
PosDocs ==
    {[i \in 1..Len(q) |-> NodeList[q[i]]] :
        q \in {q \in UNION {[1..n -> 1..Len(NodeList)] : n \in 0..MaxPos} :
                 \A i \in 1..(Len(q) - 1) : q[i] <= q[i + 1]}}

ChartOnlyDocs ==
    {p \in PosDocs : \A i \in 1..Len(p) : p[i].type = "CHART" /\ p[i].has_meta}

\* value.get("meta", {}).get("chartId") for value in positions.values()
\* if isinstance(value, dict): the ids found (None left out: no Slice has it).
SliceIds(positions) ==
    {positions[i].chartId :
        i \in {j \in 1..Len(positions) :
                 positions[j].kind = "dict" /\ positions[j].has_meta}}

\* A faulty variant: the charts found are added to the dashboard's charts.
AddedSlices(table, slice_ids, old_slices) ==
    old_slices \cup (table \cap slice_ids)

\* session.query(Slice).filter(Slice.id.in_(slice_ids)).all(), assigned to
\* dashboard.slices.
CurrentSlices(table, slice_ids, old_slices) == table \cap slice_ids

\* obj["meta"] of a CHART entry without meta: KeyError.
AnnotateRaises(positions) ==
    \E i \in 1..Len(positions) :
        /\ positions[i].kind = "dict"
        /\ positions[i].type = "CHART"
        /\ ~positions[i].has_meta

\* obj["meta"]["uuid"] = uuid_map.get(chart_id)
Annotate(positions, table) ==
    [i \in 1..Len(positions) |->
        IF /\ positions[i].kind = "dict"
           /\ positions[i].type = "CHART"
           /\ positions[i].chartId # 0
        THEN [positions[i] EXCEPT
                !.uuid = IF positions[i].chartId \in table
                         THEN Uuid(positions[i].chartId) ELSE Null]
        ELSE positions[i]]

\* old_to_new_slice_ids: None, or a dict; an empty dict is falsy.
NoRemap == [given |-> FALSE, map |-> EmptyDoc]
Truthy(remap) == remap.given /\ DOMAIN remap.map # {}

SlcIdDict(remap, slice_ids) ==
    IF Truthy(remap)
    THEN [old \in {o \in DOMAIN remap.map : remap.map[o] \in slice_ids} |->
            remap.map[old]]
    ELSE [sid \in slice_ids |-> sid]

\* The filter_scopes value of the update: a dict, or a str holding JSON
\* (json.loads(value or "{}")).
ScopesValue(form, blank, doc) == [form |-> form, blank |-> blank, doc |-> doc]
ParsedScopes(value) ==
    IF value.form = "str"
    THEN (IF value.blank THEN EmptyDoc ELSE value.doc)
    ELSE value.doc

\* copy_filter_scopes: the scopes re-keyed through the id table, their immune
\* ids translated; entries and ids the table does not know are dropped.
CopyFilterScopes(table, old) ==
    LET known == {k \in DOMAIN old : IsInt(k) /\ ToInt(k) \in DOMAIN table}
        from(nk) == CHOOSE k \in known :
                       /\ Str(table[ToInt(k)]) = nk
                       /\ \A k2 \in known :
                            Str(table[ToInt(k2)]) = nk => ToInt(k2) <= ToInt(k)
    IN  [nk \in {Str(table[ToInt(k)]) : k \in known} |->
            {table[i] : i \in old[from(nk)] \cap DOMAIN table}]

\* A faulty variant: the scopes already stored are the ones copied.
StoredFilterScopes(md, data) == Get(md, "filter_scopes", EmptyDoc)

\* old_filter_scopes of the copy_filter_scopes call.
OldFilterScopes(md, data) == ParsedScopes(data["filter_scopes"])

NewFilterScopes(md, data, remap) ==
    IF Has(data, "positions") /\ Has(data, "filter_scopes")
    THEN CopyFilterScopes(SlcIdDict(remap, SliceIds(data["positions"])),
                          OldFilterScopes(md, data))
    ELSE EmptyDoc

\* json.loads(data.get("default_filters", "{}"))
DefaultFiltersData(data) == Loads(Get(data, "default_filters", Dumps(EmptyDoc)))

\* int(key) of a key that is no number: ValueError.
DefaultFiltersRaise(data) == \E k \in DOMAIN DefaultFiltersData(data) : ~IsInt(k)

\* {key: v for key, v in default_filters_data.items() if int(key) in slice_ids}
ApplicableFilters(default_filters_data, slice_ids) ==
    [k \in {x \in DOMAIN default_filters_data : ToInt(x) \in slice_ids} |->
        default_filters_data[k]]

\* md["default_filters"] = json.dumps(applicable_filters);
\* md.pop("positions", None)
MdPositions(md, data) ==
    IF Has(data, "positions")
    THEN Pop(Put(md, "default_filters",
                 Dumps(ApplicableFilters(DefaultFiltersData(data),
                                         SliceIds(data["positions"])))),
             "positions")
    ELSE md

\* A faulty variant: an empty result leaves the stored scopes in place.
KeepFilterScopes(md, new_filter_scopes) ==
    IF new_filter_scopes # EmptyDoc
    THEN Put(md, "filter_scopes", new_filter_scopes)
    ELSE md

\* if new_filter_scopes: md["filter_scopes"] = new_filter_scopes
\* else: md.pop("filter_scopes", None)
MdFilterScopes(md, new_filter_scopes) ==
    IF new_filter_scopes # EmptyDoc
    THEN Put(md, "filter_scopes", new_filter_scopes)
    ELSE Pop(md, "filter_scopes")

MdColorNamespace(md, data) ==
    IF Get(data, "color_namespace", None) = None
    THEN Pop(md, "color_namespace")
    ELSE Put(md, "color_namespace", data["color_namespace"])

\* The defaults of the seven keys every save writes.
Defaults ==
    [expanded_slices |-> "{}",
     refresh_frequency |-> "0",
     color_scheme |-> "",
     label_colors |-> "{}",
     shared_label_colors |-> "{}",
     color_scheme_domain |-> "[]",
     cross_filters_enabled |-> "true"]
SevenKeys == DOMAIN Defaults

\* A faulty variant: a key the update lacks keeps the stored value.
MdSettingsKept(md, data) ==
    [k \in DOMAIN md \cup SevenKeys |->
        IF k \in SevenKeys
        THEN Get(data, k, Get(md, k, Defaults[k]))
        ELSE md[k]]

\* md["expanded_slices"] = data.get("expanded_slices", {}) and the six others.
MdSettings(md, data) ==
    [k \in DOMAIN md \cup SevenKeys |->
        IF k \in SevenKeys THEN Get(data, k, Defaults[k]) ELSE md[k]]

\* dashboard.params_dict: the stored metadata, parsed.
ParamsDict(dash) == Loads(dash.json_metadata)

\* The metadata document the call dumps into dashboard.json_metadata.
FinalMd(md, data, remap) ==
    MdSettings(
        MdColorNamespace(
            SetDefault(
                MdFilterScopes(MdPositions(md, data),
                               NewFilterScopes(md, data, remap)),
                "timed_refresh_immune_slices", "[]"),
            data),
        data)

SetDashMetadata ==
    LET data == request.data
        remap == request.old_to_new_slice_ids
        md == ParamsDict(dashboard)
        positioned == Has(data, "positions")
        slice_ids == IF positioned THEN SliceIds(data["positions"]) ELSE {}
        with_slices ==
            IF positioned
            THEN [dashboard EXCEPT
                    !.slices = CurrentSlices(slice_table, slice_ids, @)]
            ELSE dashboard
        with_positions ==
            IF positioned
            THEN [with_slices EXCEPT
                    !.position_json =
                        Dumps(Annotate(data["positions"], slice_table))]
            ELSE with_slices
        saved ==
            [with_positions EXCEPT
                !.css = Get(data, "css", @),
                !.dashboard_title = Get(data, "dashboard_title", @),
                !.json_metadata = Dumps(FinalMd(md, data, remap))]
    IN  /\ request # NoCall
        /\ before' = [dashboard |-> dashboard, outcome |-> outcome]
        /\ IF positioned /\ AnnotateRaises(data["positions"])
           THEN /\ dashboard' = with_slices
                /\ outcome' = "KeyError"
                /\ committed' = committed
           ELSE IF positioned /\ DefaultFiltersRaise(data)
           THEN /\ dashboard' = with_positions
                /\ outcome' = "ValueError"
                /\ committed' = committed
           ELSE /\ dashboard' = saved
                /\ outcome' = "ok"
                /\ committed' = IF request.commit THEN saved ELSE committed
        /\ UNCHANGED <<db, session, pc, call, raised, slugs, slug_check,
                       slice_table, request>>

(***************************************************************************)
(* The dashboards and the updates set_dash_metadata is run on.             *)
(***************************************************************************)
\* Values the metadata held before the update, and values an update gives.
StoredValues ==
    [expanded_slices |-> "{\"3\":false}",
     refresh_frequency |-> "10",
     color_scheme |-> "d3Category10",
     label_colors |-> "{\"a\":\"red\"}",
     shared_label_colors |-> "{\"a\":\"red\"}",
     color_scheme_domain |-> "[\"a\"]",
     cross_filters_enabled |-> "false"]
UpdateValues ==
    [expanded_slices |-> "{\"1\":true}",
     refresh_frequency |-> "300",
     color_scheme |-> "supersetColors",
     label_colors |-> "{\"b\":\"blue\"}",
     shared_label_colors |-> "{\"b\":\"blue\"}",
     color_scheme_domain |-> "[\"b\"]",
     cross_filters_enabled |-> "false"]

\* Stored metadata: each part present or not.
StoredPositions == {EmptyDoc, "positions" :> "{\"ROOT_ID\":{}}"}
StoredScopes == {EmptyDoc, "filter_scopes" :> ("1" :> {2})}
StoredSettings ==
    {EmptyDoc,
     StoredValues
        @@ ("color_namespace" :> "stored_ns")
        @@ ("default_filters" :> Dumps("2" :> "b"))
        @@ ("timed_refresh_immune_slices" :> "[1]")
        @@ ("show_native_filters" :> "true")}
StoredMds ==
    {p @@ f @@ s : p \in StoredPositions, f \in StoredScopes, s \in StoredSettings}

Dashboards(table) ==
    {[slices |-> table,
      position_json |-> Dumps(<<>>),
      json_metadata |-> Dumps(md),
      css |-> "",
      dashboard_title |-> "Sales"] : md \in StoredMds}

DefaultFilterDocs ==
    {[k \in K |-> IF k = "1" THEN "a" ELSE "b"] : K \in SUBSET {"1", "2"}}
    \cup {"x" :> "c"}
DefaultFilterFields ==
    {EmptyDoc} \cup {"default_filters" :> Dumps(d) : d \in DefaultFilterDocs}

FilterScopeDocs ==
    UNION {[K -> {{}, {1}, {2}}] : K \in SUBSET {"1", "2"}}
FilterScopeFields ==
    {EmptyDoc, "filter_scopes" :> ScopesValue("str", TRUE, EmptyDoc)}
    \cup {"filter_scopes" :> ScopesValue(form, FALSE, d) :
            form \in {"str", "dict"}, d \in FilterScopeDocs}

Remaps ==
    {NoRemap}
    \cup {[given |-> TRUE, map |-> m] :
            m \in UNION {[D -> ChartIds] : D \in SUBSET ChartIds}}

Request(data, remap, commit) ==
    [data |-> data, old_to_new_slice_ids |-> remap, commit |-> commit]

\* Updates of the layout: positions and default filters.
PositionRequests ==
    {Request(("positions" :> p) @@ df, NoRemap, FALSE) :
        p \in PosDocs, df \in DefaultFilterFields}

\* Updates of the filter scopes, with and without positions and id remap.
ScopeRequests ==
    {Request(pf @@ fs, r, FALSE) :
        pf \in {EmptyDoc} \cup {"positions" :> p : p \in ChartOnlyDocs},
        fs \in FilterScopeFields,
        r \in Remaps}

\* Updates of the plain fields.
FieldRequests ==
    {Request(pf @@ ns @@ ct @@ [k \in S |-> UpdateValues[k]], NoRemap, commit) :
        pf \in {EmptyDoc, "positions" :> <<>>},
        ns \in {EmptyDoc, "color_namespace" :> None,
                "color_namespace" :> "update_ns"},
        ct \in {EmptyDoc, ("css" :> ".a{}") @@ ("dashboard_title" :> "Sales Q2")},
        S \in SUBSET SevenKeys,
        commit \in BOOLEAN}

Requests == PositionRequests \cup ScopeRequests \cup FieldRequests

MetaInit ==
    /\ slice_table \in SUBSET ChartIds
    /\ dashboard \in Dashboards(slice_table)
    /\ committed = dashboard
    /\ before = NoCall
    /\ request \in Requests
    /\ outcome = "none"
    /\ db = StoreOf({})
    /\ session = db
    /\ pc = "idle"
    /\ call = NoCall
    /\ raised = NoError
    /\ slugs = <<>>
    /\ slug_check = NoCall

MetaNext == SetDashMetadata

SpecMeta == MetaInit /\ [][MetaNext]_vars

(***************************************************************************)
(* Claims about the slug checks.                                           *)
(***************************************************************************)
\* C3: both slug checks report "unique" for an empty-string slug and for an
\* absent (None) slug, whatever the store holds.
C3_EmptySlugAlwaysUnique ==
    (slug_check.op # "none" /\ Falsy(slug_check.slug)) => slug_check.unique

(***************************************************************************)
(* Claims about update_charts_owners.                                      *)
(***************************************************************************)
\* C9: after update_charts_owners every chart of the dashboard is owned by its
\* prior owners and the dashboard's owners, the other charts' owners and the
\* dashboard's own owners are as before, and a second application changes
\* nothing.
C9_OwnersUnion ==
    call.op = "update_charts_owners" =>
        LET pre == call.entry
            d == call.model
        IN  /\ \A c \in ChartIds :
                 ChartOwners(session, c) =
                    IF c \in SlicesOf(pre, d)
                    THEN ChartOwners(pre, c) \cup OwnersOf(pre, d)
                    ELSE ChartOwners(pre, c)
            /\ session.dashboard_user = pre.dashboard_user
            /\ session.dashboard_slices = pre.dashboard_slices
            /\ PropagateOwners(session, d) = session
            /\ (call.commit /\ raised = NoError) => db = session

\* A chart of the dashboard had an owner the dashboard lacks, and the dashboard
\* an owner the chart lacked.
C9_Witness ==
    /\ call.op = "update_charts_owners"
    /\ \E c \in SlicesOf(call.entry, call.model) :
         /\ ChartOwners(call.entry, c) \ OwnersOf(call.entry, call.model) # {}
         /\ OwnersOf(call.entry, call.model) \ ChartOwners(call.entry, c) # {}
         /\ ChartOwners(session, c) = UserIds
    /\ \E c \in ChartIds \ SlicesOf(call.entry, call.model) :
         ChartOwners(session, c) # {}

(***************************************************************************)
(* Claims about bulk_delete.                                               *)
(***************************************************************************)
ModelSet == {call.models[i] : i \in 1..Len(call.models)}

\* The association rows of dashboard d.
Associations(s, d) ==
    <<SlicesOf(s, d), OwnersOf(s, d), d \in s.embedded>>

\* No association row refers to a dashboard row that does not exist.
NoOrphans(s) ==
    /\ \A r \in s.dashboard_slices \cup s.dashboard_user : r[1] \in s.dashboards
    /\ s.embedded \subseteq s.dashboards

\* C7: when the row delete or the commit fails, the session is rolled back
\* before the error leaves bulk_delete: the store holds the given dashboards
\* and their associations as before the call, and the caller gets the
\* original storage error.
C7_FailureRollsBack ==
    (call.op = "bulk_delete" /\ pc = "idle" /\ raised # NoError) =>
        /\ raised = call.fault
        /\ db = call.entry_db
        /\ session = db
        /\ \A d \in ModelSet :
             /\ d \in db.dashboards
             /\ d \in session.dashboards
             /\ Associations(session, d) = Associations(call.entry, d)

\* The commit failed after two dashboards with charts, owners and an embed
\* were detached and deleted in the session.
C7_Witness ==
    /\ call.op = "bulk_delete" /\ pc = "idle"
    /\ raised \in StorageErrors
    /\ call.failed_at = "commit"
    /\ \E d \in ModelSet :
         /\ SlicesOf(session, d) # {}
         /\ OwnersOf(session, d) # {}
         /\ d \in session.embedded

\* C8: the associations are detached before the rows are deleted, so no
\* association row ever refers to a deleted dashboard; after a successful call
\* the given dashboards and their association rows are gone and everything
\* else is as it was.
C8_DetachThenDelete ==
    /\ NoOrphans(session)
    /\ NoOrphans(db)
    /\ (call.op = "bulk_delete" /\ pc = "idle" /\ raised = NoError) =>
         LET pre == call.entry
             gone == IF call.given THEN ModelSet ELSE {}
         IN  /\ session.dashboards = pre.dashboards \ gone
             /\ session.dashboard_slices =
                    {r \in pre.dashboard_slices : r[1] \notin gone}
             /\ session.dashboard_user =
                    {r \in pre.dashboard_user : r[1] \notin gone}
             /\ session.embedded = pre.embedded \ gone
             /\ session.slices = pre.slices
             /\ session.ab_user = pre.ab_user
             /\ session.slice_user = pre.slice_user
             /\ db = IF call.commit THEN session ELSE call.entry_db

\* Two dashboards, each with a chart and an owner, were deleted and committed.
C8_Witness ==
    /\ call.op = "bulk_delete" /\ pc = "idle" /\ raised = NoError
    /\ call.commit
    /\ Len(call.models) = 2
    /\ \A d \in ModelSet :
         /\ SlicesOf(call.entry, d) # {}
         /\ OwnersOf(call.entry, d) # {}
         /\ d \notin db.dashboards
    /\ db.dashboard_slices = {} /\ db.dashboard_user = {}

(***************************************************************************)
(* Claims about set_dash_metadata.                                         *)
(***************************************************************************)
\* The metadata document in dashboard.json_metadata, the one the last call
\* found, and the update of the call.
SavedMd == Loads(dashboard.json_metadata)
FoundMd == Loads(before.dashboard.json_metadata)
Update == request.data

\* The chart ids of the mapping-valued entries of the update's positions.
ReferencedIds ==
    {c \in ChartIds :
        \E i \in 1..Len(Update["positions"]) :
            /\ Update["positions"][i].kind = "dict"
            /\ Update["positions"][i].has_meta
            /\ Update["positions"][i].chartId = c}

\* C1: after set_dash_metadata returns, the metadata document never has the
\* key "positions", whatever the prior metadata and the update.
C1_NoPositionsKey ==
    outcome = "ok" => ~Has(SavedMd, "positions")

\* C2: when the update carries positions, the default_filters written are
\* exactly the update's entries whose key is the id of a chart found in the
\* store (the dashboard's new charts).
C2_DefaultFiltersResolved ==
    (outcome = "ok" /\ Has(Update, "positions")) =>
        Loads(SavedMd["default_filters"]) =
            [k \in {x \in DOMAIN DefaultFiltersData(Update) :
                        ToInt(x) \in dashboard.slices} |->
                DefaultFiltersData(Update)[k]]

\* C4: when the update carries positions, the dashboard's charts become
\* exactly the charts of the store whose id a mapping-valued position entry
\* carries, whatever charts it had before.
C4_SlicesReplaced ==
    (outcome # "none" /\ Has(Update, "positions")) =>
        /\ dashboard.slices = slice_table \cap ReferencedIds
        /\ (Update["positions"] = <<>> => dashboard.slices = {})

\* Two entries refer to one chart of the store, and a chart the dashboard had
\* is no longer referred to.
C4_Witness ==
    /\ outcome = "ok" /\ Has(Update, "positions")
    /\ Len(Update["positions"]) = 2
    /\ Cardinality(ReferencedIds) = 1
    /\ dashboard.slices = ReferencedIds
    /\ before.dashboard.slices \ dashboard.slices # {}

\* C5: after every call that returns, the metadata has the seven keys, each
\* with the update's value, or its default where the update lacks the key.
C5_SettingsPresent ==
    outcome = "ok" =>
        \A k \in SevenKeys :
            /\ Has(SavedMd, k)
            /\ SavedMd[k] = IF Has(Update, k) THEN Update[k] ELSE Defaults[k]

\* The metadata held other values for the seven keys, and the update gives
\* some of the keys and not cross_filters_enabled.
C5_Witness ==
    /\ outcome = "ok"
    /\ \A k \in SevenKeys : Has(FoundMd, k) /\ FoundMd[k] # Defaults[k]
    /\ Has(Update, "refresh_frequency")
    /\ ~Has(Update, "cross_filters_enabled")
    /\ SavedMd["cross_filters_enabled"] = "true"
    /\ ~Has(Update, "positions")

\* C6: the same update applied to the result of its first application leaves
\* the metadata document as the first application left it.
C6_Idempotent ==
    (outcome = "ok" /\ before.outcome = "ok") =>
        dashboard.json_metadata = before.dashboard.json_metadata

\* The update, with positions, filter scopes and an id remap, was applied
\* twice, and it had changed the metadata the first time.
C6_Witness ==
    /\ outcome = "ok" /\ before.outcome = "ok"
    /\ Has(Update, "positions") /\ Has(Update, "filter_scopes")
    /\ Truthy(request.old_to_new_slice_ids)
    /\ Has(SavedMd, "filter_scopes")
    /\ committed.json_metadata # dashboard.json_metadata

\* The filter-scope document of step 1e for the update of the call.
ExpectedScopes ==
    IF Has(Update, "positions") /\ Has(Update, "filter_scopes")
    THEN CopyFilterScopes(
            SlcIdDict(request.old_to_new_slice_ids, ReferencedIds),
            ParsedScopes(Update["filter_scopes"]))
    ELSE EmptyDoc

\* C10: after set_dash_metadata the metadata has the key "filter_scopes"
\* exactly when the document of step 1e is not empty, and then holds it; an
\* update without positions removes the key.
C10_FilterScopesKey ==
    outcome = "ok" =>
        /\ Has(SavedMd, "filter_scopes") <=> ExpectedScopes # EmptyDoc
        /\ Has(SavedMd, "filter_scopes") =>
              SavedMd["filter_scopes"] = ExpectedScopes
        /\ ~Has(Update, "positions") => ~Has(SavedMd, "filter_scopes")

\* The metadata held filter scopes, the update gives filter scopes and no
\* positions, and the key is gone.
C10_Witness ==
    /\ outcome = "ok" /\ before.outcome = "none"
    /\ Has(FoundMd, "filter_scopes")
    /\ Has(Update, "filter_scopes") /\ ~Has(Update, "positions")
    /\ Update["filter_scopes"].doc # EmptyDoc
    /\ ~Has(SavedMd, "filter_scopes")
====
